---------------------------- MODULE Spec2Model ----------------------------
(***************************************************************************)
(* Model of the action execution framework of the browser agent:          *)
(*   chrome-extension/src/background/agent/actions/builder.ts             *)
(* Action.call / Action.getIndexArg and the handlers registered by        *)
(* ActionBuilder.buildDefaultActions, run await by await against a        *)
(* browser-control collaborator and an event sink.                        *)
(***************************************************************************)
EXTENDS Integers, Sequences, FiniteSets, TLC

(***************************************************************************)
(* Bounds of the model.                                                    *)
(***************************************************************************)
\* number of Action.call invocations in one run
MaxCalls == 2
\* tab identifiers are 0..MaxTabId
MaxTabId == 2
\* element indexes are 0..MaxIndex
MaxIndex == 1
\* a dropdown lists at most MaxOptions options
MaxOptions == 2
\* one click opens at most MaxOpened tabs
MaxOpened == 2
\* actions handed to buildDynamicActionSchema at once
MaxActions == 3

TabIds == 0..MaxTabId
Indexes == 0..MaxIndex
\* "no current tab" / "no argument" marker (not a tab id)
NoTab == 0 - 1
NoArg == 0 - 1

(***************************************************************************)
(* JavaScript values reaching Action.call / getIndexArg as `input`.       *)
(* Every value is a record [t, v]: t is the tag, v the payload.           *)
(***************************************************************************)
Undef == [t |-> "undefined", v |-> 0]
Null == [t |-> "null", v |-> 0]
Num(n) == [t |-> "number", v |-> n]
Str(s) == [t |-> "string", v |-> s]
Obj(f) == [t |-> "object", v |-> f]
EmptyObj == Obj(<<>>)

\* JS truthiness of a value (used by `input && ...`, `if (tabId)`, `if (newTabId)`)
Truthy(x) ==
  CASE x.t = "undefined" -> FALSE
    [] x.t = "null" -> FALSE
    [] x.t = "number" -> x.v # 0
    [] x.t = "string" -> x.v # ""
    [] OTHER -> TRUE

\* JS typeof
TypeOf(x) ==
  CASE x.t = "undefined" -> "undefined"
    [] x.t = "null" -> "object"
    [] x.t = "number" -> "number"
    [] x.t = "string" -> "string"
    [] OTHER -> "object"

\* JS `key in input` for an object value
HasKey(x, key) == x.t = "object" /\ key \in DOMAIN x.v

\* JS property read input.key (undefined when the key is absent)
Get(x, key) == IF HasKey(x, key) THEN x.v[key] ELSE Undef

(***************************************************************************)
(* Action schema catalog (./schemas): field name -> type, optional.       *)
(***************************************************************************)
ActionNames ==
  {"done", "search_google", "go_to_url", "go_back", "click_element",
   "input_text", "switch_tab", "open_tab", "close_tab", "extract_content",
   "cache_content", "scroll_down", "scroll_up", "send_keys",
   "scroll_to_text", "get_dropdown_options", "select_dropdown_option"}

Req(type) == [type |-> type, optional |-> FALSE]
Opt(type) == [type |-> type, optional |-> TRUE]

SchemaOf(name) ==
  CASE name = "done" -> ("text" :> Req("string"))
    [] name = "search_google" -> ("query" :> Req("string"))
    [] name = "go_to_url" -> ("url" :> Req("string"))
    [] name = "go_back" -> <<>>
    [] name = "click_element" -> ("desc" :> Opt("string")) @@ ("index" :> Req("number"))
    [] name = "input_text" ->
         ("desc" :> Opt("string")) @@ ("index" :> Req("number")) @@ ("text" :> Req("string"))
    [] name = "switch_tab" -> ("tab_id" :> Req("number"))
    [] name = "open_tab" -> ("url" :> Req("string"))
    [] name = "close_tab" -> ("tab_id" :> Opt("number"))
    [] name = "extract_content" -> ("goal" :> Req("string"))
    [] name = "cache_content" -> ("content" :> Req("string"))
    [] name = "scroll_down" -> ("desc" :> Opt("string")) @@ ("amount" :> Opt("number"))
    [] name = "scroll_up" -> ("desc" :> Opt("string")) @@ ("amount" :> Opt("number"))
    [] name = "send_keys" -> ("desc" :> Opt("string")) @@ ("keys" :> Req("string"))
    [] name = "scroll_to_text" -> ("desc" :> Opt("string")) @@ ("text" :> Req("string"))
    [] name = "get_dropdown_options" -> ("index" :> Req("number"))
    [] OTHER -> ("index" :> Req("number")) @@ ("text" :> Req("string"))

\* third constructor argument of Action (default false)
HasIndexOf(name) ==
  name \in {"click_element", "input_text", "get_dropdown_options", "select_dropdown_option"}

(***************************************************************************)
(* zod: schema.safeParse(input) for a z.object schema of primitive fields.*)
(* Non-objects fail; a required field must be present with its type; an   *)
(* optional field may be absent or undefined; a key of the schema that the *)
(* input holds is kept in data (an optional one even when its value is    *)
(* undefined); unknown keys are stripped.                                 *)
(***************************************************************************)
FieldOk(field, x, key) ==
  IF HasKey(x, key) /\ x.v[key].t # "undefined"
    THEN x.v[key].t = field.type
    ELSE field.optional

safeParse(schema, input) ==
  LET success == input.t = "object" /\ \A key \in DOMAIN schema : FieldOk(schema[key], input, key)
      keep == IF input.t = "object"
                THEN {key \in DOMAIN schema : key \in DOMAIN input.v}
                ELSE {}
  IN [success |-> success,
      data |-> IF success THEN Obj([key \in keep |-> input.v[key]]) ELSE Undef]


(***************************************************************************)
(* ActionResult (agent/types): constructor defaults for omitted fields.   *)
(* Strings built from templates are tuples of their parts; Unset is an    *)
(* omitted field.                                                          *)
(***************************************************************************)
Unset == <<>>
ActionResult(isDone, extractedContent, error, includeInMemory) ==
  [isDone |-> isDone, extractedContent |-> extractedContent,
   error |-> error, includeInMemory |-> includeInMemory]
NoResult == ActionResult(FALSE, Unset, Unset, FALSE)

\* `${n}` of a small number
DigitStr == <<"0", "1", "2", "3", "4", "5", "6", "7", "8", "9">>
NumStr(n) == IF n \in 0..9 THEN DigitStr[n + 1] ELSE "n"

(***************************************************************************)
(* The run of one handler.  A handler is an async function: it runs        *)
(* synchronously up to the `await` of a collaborator call, is suspended    *)
(* there, and resumes when the collaborator has answered.  m is the        *)
(* browser state seen through context.browserContext together with the     *)
(* position of the run:                                                    *)
(*   tabs, cur  the tab state now                                          *)
(*   trace      the effects of the invocation so far, in order (events     *)
(*              emitted, collaborator calls answered)                      *)
(*   hist       the answers [ok, val] its earlier awaits received          *)
(*   budget     the awaits that may be answered now: "none" (run up to     *)
(*              the next await), "one" (the pending await is answered and  *)
(*              the run goes on to the next), "all" (run to completion)    *)
(*   susp       the run stands at an await                                 *)
(*   live       the await answered in this step ("none" if none)           *)
(* A step re-reads the handler from its start: its earlier awaits answer   *)
(* what they answered then (hist), the pending one is answered from the    *)
(* state as it is now.                                                     *)
(***************************************************************************)
Effect(k, op, arg, bg) == [k |-> k, op |-> op, arg |-> arg, bg |-> bg]

\* context.emitEvent(Actors.NAVIGATOR, phase, details): synchronous
emitEvent(m, phase) ==
  IF m.susp THEN m
  ELSE [m EXCEPT !.trace = Append(@, Effect("emit", phase, NoArg, "na"))]

\* a call to the browser-control collaborator, the page or the extraction model
Op(m, op, arg, bg) == [m EXCEPT !.trace = Append(@, Effect("call", op, arg, bg))]

\* the collaborator calls of a trace, in order
CallsOf(trace) == SelectSeq(trace, LAMBDA e : e.k = "call")

\* `await collaborator.op(arg)`: answered from hist when the run passed it in
\* an earlier step; answered now, with `ok`, `val` and the state `after` the
\* collaborator acted, when it is the pending await and the budget allows;
\* otherwise the run is suspended here
Await(m, at, op, arg, bg, ok, val, after) ==
  LET n == Len(CallsOf(m.trace)) + 1
  IN IF m.susp THEN [ok |-> TRUE, m |-> m, val |-> val]
     ELSE IF n <= Len(m.hist)
       THEN [ok |-> m.hist[n].ok, m |-> Op(m, op, arg, bg), val |-> m.hist[n].val]
     ELSE IF m.budget = "none"
       THEN [ok |-> TRUE, m |-> [m EXCEPT !.susp = TRUE], val |-> val]
     ELSE [ok |-> ok,
           m |-> [Op(after, op, arg, bg) EXCEPT
                    !.hist = Append(@, [ok |-> ok, val |-> val]),
                    !.budget = IF @ = "one" THEN "none" ELSE @,
                    !.live = at],
           val |-> val]

Ret(m, res) == [m |-> m, out |-> [kind |-> "return", res |-> res, err |-> "none"]]
Throw(m, err) == [m |-> m, out |-> [kind |-> "throw", res |-> NoResult, err |-> err]]

\* the collaborator operation `op` rejects in this invocation
Fails(env, op) == env.fail = op

(***************************************************************************)
(* Browser-control collaborator (context.browserContext), as far as the   *)
(* handlers observe it.  Each returns [ok, m, val].                        *)
(***************************************************************************)
getCurrentPage(m, env, bg) ==
  Await(m, "getCurrentPage", "getCurrentPage", NoArg, bg,
        ~Fails(env, "getCurrentPage") /\ m.cur # NoTab, m.cur, m)

navigateTo(m, env, bg) ==
  Await(m, "navigateTo", "navigateTo", NoArg, bg,
        ~Fails(env, "navigateTo") /\ m.cur # NoTab, m.cur, m)

openTabOp(m, env, bg) ==
  LET ok == ~Fails(env, "openTab") /\ env.newTab \in TabIds \ m.tabs
  IN Await(m, "openTab", "openTab", NoArg, bg, ok, env.newTab,
           IF ok THEN [m EXCEPT !.tabs = @ \cup {env.newTab}, !.cur = env.newTab] ELSE m)

switchTabOp(m, env, id, bg) ==
  LET ok == ~Fails(env, "switchTab") /\ id \in m.tabs
  IN Await(m, "switchTab", "switchTab", id, bg, ok, id,
           IF ok THEN [m EXCEPT !.cur = id] ELSE m)

closeTabOp(m, env, id) ==
  LET ok == ~Fails(env, "closeTab") /\ id \in m.tabs
  IN Await(m, "closeTab", "closeTab", id, "na", ok, id,
           IF ok THEN [m EXCEPT !.tabs = @ \ {id},
                                !.cur = IF @ = id THEN NoTab ELSE @]
                 ELSE m)

\* `which` tells the two listings of click_element apart
getAllTabIds(m, env, which) ==
  Await(m, which, "getAllTabIds", NoArg, "na", ~Fails(env, which), m.tabs, m)

\* a page-level operation with no effect on the tab state
PageOp(m, env, op, arg) ==
  Await(m, op, op, arg, "na", ~Fails(env, op), NoArg, m)

\* page.clickElementNode: the click may open new tabs (env.opened, in the
\* order getAllTabIds will list them)
clickElementNode(m, env, idx) ==
  LET ok == ~Fails(env, "clickElementNode")
      new == {env.opened[i] : i \in DOMAIN env.opened}
  IN Await(m, "clickElementNode", "clickElementNode", idx, "na", ok, NoArg,
           IF ok THEN [m EXCEPT !.tabs = @ \cup new] ELSE m)

\* state?.selectorMap.get(index): a sequence holding the element, or empty
selectorMapGet(map, idx) ==
  IF idx.t = "number" /\ idx.v \in DOMAIN map THEN <<map[idx.v]>> ELSE <<>>

\* String.prototype.toLowerCase on the tag names of the model
toLowerCase(s) ==
  CASE s = "SELECT" -> "select"
    [] s = "DIV" -> "div"
    [] s = "INPUT" -> "input"
    [] OTHER -> s

(***************************************************************************)
(* Handlers registered by ActionBuilder.buildDefaultActions.  Each takes  *)
(* the validated input, the collaborators' behaviour in this invocation   *)
(* (env) and the state m, and yields [m, out]: out is the returned        *)
(* ActionResult or the exception thrown.                                   *)
(***************************************************************************)
\* done returning the text without marking the run complete
done_NotDone(input, env, m) ==
  LET m1 == emitEvent(m, "ACT_START")
      m2 == emitEvent(m1, "ACT_OK")
  IN Ret(m2, ActionResult(FALSE, <<Get(input, "text").v>>, Unset, FALSE))

done(input, env, m) ==
  LET m1 == emitEvent(m, "ACT_START")
      m2 == emitEvent(m1, "ACT_OK")
  IN Ret(m2, ActionResult(TRUE, <<Get(input, "text").v>>, Unset, FALSE))

searchGoogle(input, env, m) ==
  LET m1 == emitEvent(m, "ACT_START")
      nav == navigateTo(m1, env, "true")
  IN IF ~nav.ok THEN Throw(nav.m, "navigateTo")
     ELSE Ret(emitEvent(nav.m, "ACT_OK"),
              ActionResult(FALSE, <<"Searched for", Get(input, "query").v, "in Google (background)">>,
                           Unset, TRUE))

goToUrl(input, env, m) ==
  LET m1 == emitEvent(m, "ACT_START")
      nav == navigateTo(m1, env, "true")
  IN IF ~nav.ok THEN Throw(nav.m, "navigateTo")
     ELSE Ret(emitEvent(nav.m, "ACT_OK"),
              ActionResult(FALSE, <<"Navigated to", Get(input, "url").v, "(in background)">>,
                           Unset, TRUE))

goBack(input, env, m) ==
  LET m1 == emitEvent(m, "ACT_START")
      page == getCurrentPage(m1, env, "true")
      back == PageOp(page.m, env, "goBack", NoArg)
  IN IF ~page.ok THEN Throw(page.m, "getCurrentPage")
     ELSE IF ~back.ok THEN Throw(back.m, "goBack")
     ELSE Ret(emitEvent(back.m, "ACT_OK"),
              ActionResult(FALSE, <<"Navigated back (background)">>, Unset, TRUE))

\* line 230 with any tab of the second listing taken as the new one, whether
\* or not the first snapshot held it
findNewTabId_AnyTab(initialTabIds, currentTabIds) ==
  IF currentTabIds = <<>> THEN Undef ELSE Num(Head(currentTabIds))

\* line 230: Array.from(currentTabIds).find(id => !initialTabIds.has(id))
findNewTabId(initialTabIds, currentTabIds) ==
  LET added == SelectSeq(currentTabIds, LAMBDA id : id \notin initialTabIds)
  IN IF added = <<>> THEN Undef ELSE Num(Head(added))

\* click_element's try block with ACT_OK emitted before the switch to the new
\* tab: a rejected switchTab then adds ACT_FAIL to the same invocation
clickElementTry_OkBeforeSwitch(input, env, m) ==
  LET idx == Get(input, "index").v
      caught(mc, op) ==
        Ret(emitEvent(mc, "ACT_FAIL"), ActionResult(FALSE, Unset, <<op>>, FALSE))
      initial == getAllTabIds(m, env, "getAllTabIds")
      click == clickElementNode(initial.m, env, idx)
      current == getAllTabIds(click.m, env, "getAllTabIds2")
      grew == Cardinality(current.val) > Cardinality(initial.val)
      newTabId == findNewTabId(initial.val, env.listing)
      ok == emitEvent(current.m, "ACT_OK")
      sw == switchTabOp(ok, env, newTabId.v, "absent")
      msg == <<"Clicked button with index", NumStr(idx)>>
  IN IF ~initial.ok THEN caught(initial.m, "getAllTabIds")
     ELSE IF ~click.ok THEN caught(click.m, "clickElementNode")
     ELSE IF ~current.ok THEN caught(current.m, "getAllTabIds")
     ELSE IF grew /\ Truthy(newTabId)
       THEN IF ~sw.ok THEN caught(sw.m, "switchTab")
            ELSE Ret(sw.m, ActionResult(FALSE, msg, Unset, TRUE))
     ELSE Ret(ok, ActionResult(FALSE, msg, Unset, TRUE))

\* click_element's try block switching tabs although the click opened none
clickElementTry_SwitchesWithoutNewTab(input, env, m) ==
  LET idx == Get(input, "index").v
      caught(mc, op) ==
        Ret(emitEvent(mc, "ACT_FAIL"), ActionResult(FALSE, Unset, <<op>>, FALSE))
      initial == getAllTabIds(m, env, "getAllTabIds")
      click == clickElementNode(initial.m, env, idx)
      current == getAllTabIds(click.m, env, "getAllTabIds2")
      newTabId == IF env.listing = <<>> THEN 0 ELSE Head(env.listing)
      sw == switchTabOp(current.m, env, newTabId, "absent")
      msg == <<"Clicked button with index", NumStr(idx)>>
  IN IF ~initial.ok THEN caught(initial.m, "getAllTabIds")
     ELSE IF ~click.ok THEN caught(click.m, "clickElementNode")
     ELSE IF ~current.ok THEN caught(current.m, "getAllTabIds")
     ELSE IF ~sw.ok THEN caught(sw.m, "switchTab")
     ELSE Ret(emitEvent(sw.m, "ACT_OK"), ActionResult(FALSE, msg, Unset, TRUE))

\* lines 217-243: the try block of click_element and its catch
clickElementTry(input, env, m) ==
  LET idx == Get(input, "index").v
      caught(mc, op) ==
        Ret(emitEvent(mc, "ACT_FAIL"), ActionResult(FALSE, Unset, <<op>>, FALSE))
      initial == getAllTabIds(m, env, "getAllTabIds")
      click == clickElementNode(initial.m, env, idx)
      current == getAllTabIds(click.m, env, "getAllTabIds2")
      grew == Cardinality(current.val) > Cardinality(initial.val)
      \* env.listing is Array.from(currentTabIds)
      newTabId == findNewTabId(initial.val, env.listing)
      \* switchTab(newTabId): no background argument is passed
      sw == switchTabOp(current.m, env, newTabId.v, "absent")
      msg == IF grew
               THEN <<"Clicked button with index", NumStr(idx), "New tab opened - switching to it">>
               ELSE <<"Clicked button with index", NumStr(idx)>>
  IN IF ~initial.ok THEN caught(initial.m, "getAllTabIds")
     ELSE IF ~click.ok THEN caught(click.m, "clickElementNode")
     ELSE IF ~current.ok THEN caught(current.m, "getAllTabIds")
     ELSE IF grew /\ Truthy(newTabId)
       THEN IF ~sw.ok THEN caught(sw.m, "switchTab")
            ELSE Ret(emitEvent(sw.m, "ACT_OK"), ActionResult(FALSE, msg, Unset, TRUE))
     ELSE Ret(emitEvent(current.m, "ACT_OK"), ActionResult(FALSE, msg, Unset, TRUE))

clickElement(input, env, m) ==
  LET m1 == emitEvent(m, "ACT_START")
      page == getCurrentPage(m1, env, "true")
      state == PageOp(page.m, env, "getState", NoArg)
      elementNode == selectorMapGet(env.map, Get(input, "index"))
      upl == PageOp(state.m, env, "isFileUploader", Get(input, "index").v)
  IN IF ~page.ok THEN Throw(page.m, "getCurrentPage")
     ELSE IF ~state.ok THEN Throw(state.m, "getState")
     ELSE IF elementNode = <<>> THEN Throw(state.m, "ElementNotExist")
     ELSE IF ~upl.ok THEN Throw(upl.m, "isFileUploader")
     ELSE IF elementNode[1].uploader
       THEN Ret(upl.m, ActionResult(FALSE,
                  <<"Index", NumStr(Get(input, "index").v), "has an element which opens file upload dialog">>,
                  Unset, TRUE))
     ELSE clickElementTry(input, env, upl.m)

\* input_text reporting a missing element as a failed result and typing anyway
inputText_ReturnsOnMissing(input, env, m) ==
  LET m1 == emitEvent(m, "ACT_START")
      page == getCurrentPage(m1, env, "true")
      state == PageOp(page.m, env, "getState", NoArg)
      elementNode == selectorMapGet(env.map, Get(input, "index"))
      typed == PageOp(state.m, env, "inputTextElementNode", Get(input, "index").v)
  IN IF ~page.ok THEN Throw(page.m, "getCurrentPage")
     ELSE IF ~state.ok THEN Throw(state.m, "getState")
     ELSE IF elementNode = <<>>
       THEN Ret(emitEvent(typed.m, "ACT_FAIL"),
                ActionResult(FALSE, Unset, <<"Element does not exist">>, TRUE))
     ELSE IF ~typed.ok THEN Throw(typed.m, "inputTextElementNode")
     ELSE Ret(emitEvent(typed.m, "ACT_OK"),
              ActionResult(FALSE, <<"Input", Get(input, "text").v, "into index",
                                    NumStr(Get(input, "index").v)>>, Unset, TRUE))

inputText(input, env, m) ==
  LET m1 == emitEvent(m, "ACT_START")
      page == getCurrentPage(m1, env, "true")
      state == PageOp(page.m, env, "getState", NoArg)
      elementNode == selectorMapGet(env.map, Get(input, "index"))
      typed == PageOp(state.m, env, "inputTextElementNode", Get(input, "index").v)
  IN IF ~page.ok THEN Throw(page.m, "getCurrentPage")
     ELSE IF ~state.ok THEN Throw(state.m, "getState")
     ELSE IF elementNode = <<>> THEN Throw(state.m, "ElementNotExist")
     ELSE IF ~typed.ok THEN Throw(typed.m, "inputTextElementNode")
     ELSE Ret(emitEvent(typed.m, "ACT_OK"),
              ActionResult(FALSE, <<"Input", Get(input, "text").v, "into index",
                                    NumStr(Get(input, "index").v)>>, Unset, TRUE))

switchTab(input, env, m) ==
  LET m1 == emitEvent(m, "ACT_START")
      sw == switchTabOp(m1, env, Get(input, "tab_id").v, "true")
  IN IF ~sw.ok THEN Throw(sw.m, "switchTab")
     ELSE Ret(emitEvent(sw.m, "ACT_OK"),
              ActionResult(FALSE, <<"Switched to tab", NumStr(Get(input, "tab_id").v), "(in background)">>,
                           Unset, TRUE))

\* open_tab asking for a foreground tab and leaving the tab id out of the message
openTab_Foreground(input, env, m) ==
  LET m1 == emitEvent(m, "ACT_START")
      page == openTabOp(m1, env, "false")
  IN IF ~page.ok THEN Throw(page.m, "openTab")
     ELSE Ret(emitEvent(page.m, "ACT_OK"),
              ActionResult(FALSE, <<"Opened", Get(input, "url").v, "in new tab">>, Unset, TRUE))

openTab(input, env, m) ==
  LET m1 == emitEvent(m, "ACT_START")
      page == openTabOp(m1, env, "true")
  IN IF ~page.ok THEN Throw(page.m, "openTab")
     ELSE Ret(emitEvent(page.m, "ACT_OK"),
              ActionResult(FALSE, <<"Opened", Get(input, "url").v, "in new tab (ID:",
                                    NumStr(page.val), "background mode", ")">>, Unset, TRUE))

\* close_tab without tab_id closing a tab id fixed beforehand (the first tab)
\* instead of the current one
closeTab_ClosesStale(input, env, m) ==
  LET tabId == Get(input, "tab_id")
      m1 == emitEvent(m, "ACT_START")
      cl == closeTabOp(m1, env, tabId.v)
      page == getCurrentPage(m, env, "true")
      m2 == emitEvent(page.m, "ACT_START")
      clc == closeTabOp(m2, env, 1)
  IN IF Truthy(tabId)
       THEN IF ~cl.ok THEN Throw(cl.m, "closeTab")
            ELSE Ret(emitEvent(cl.m, "ACT_OK"),
                     ActionResult(FALSE, <<"Closed tab", NumStr(tabId.v)>>, Unset, TRUE))
       ELSE IF ~page.ok THEN Throw(page.m, "getCurrentPage")
            ELSE IF ~clc.ok THEN Throw(clc.m, "closeTab")
            ELSE Ret(emitEvent(clc.m, "ACT_OK"),
                     ActionResult(FALSE, <<"Closed current tab", NumStr(1)>>, Unset, TRUE))

closeTab(input, env, m) ==
  LET tabId == Get(input, "tab_id")
      \* if (tabId) branch
      m1 == emitEvent(m, "ACT_START")
      cl == closeTabOp(m1, env, tabId.v)
      \* else branch: the current page is read before ACT_START is emitted
      page == getCurrentPage(m, env, "true")
      m2 == emitEvent(page.m, "ACT_START")
      clc == closeTabOp(m2, env, page.val)
  IN IF Truthy(tabId)
       THEN IF ~cl.ok THEN Throw(cl.m, "closeTab")
            ELSE Ret(emitEvent(cl.m, "ACT_OK"),
                     ActionResult(FALSE, <<"Closed tab", NumStr(tabId.v)>>, Unset, TRUE))
       ELSE IF ~page.ok THEN Throw(page.m, "getCurrentPage")
            ELSE IF ~clc.ok THEN Throw(clc.m, "closeTab")
            ELSE Ret(emitEvent(clc.m, "ACT_OK"),
                     ActionResult(FALSE, <<"Closed current tab", NumStr(page.val)>>, Unset, TRUE))

extractContent(input, env, m) ==
  LET page == getCurrentPage(m, env, "true")
      content == PageOp(page.m, env, "getReadabilityContent", NoArg)
      \* line 337: awaited before the try block
      prompt == PageOp(content.m, env, "promptTemplate.invoke", NoArg)
      \* line 340: this.extractorLLM.invoke(prompt), inside the try block
      output == PageOp(prompt.m, env, "invoke", NoArg)
  IN IF ~page.ok THEN Throw(page.m, "getCurrentPage")
     ELSE IF ~content.ok THEN Throw(content.m, "getReadabilityContent")
     ELSE IF ~prompt.ok THEN Throw(prompt.m, "promptTemplate.invoke")
     ELSE IF output.ok
       THEN Ret(output.m, ActionResult(FALSE, <<"Extracted from page", "output.content">>, Unset, TRUE))
       ELSE Ret(output.m, ActionResult(FALSE, <<"Failed to extract content from page, you need to extract content from the current state of the page and store it in the memory. Then scroll down if you still need more information.">>,
                                       Unset, TRUE))

\* cache_content marking the run complete
cacheContent_MarksDone(input, env, m) ==
  LET m1 == emitEvent(m, "ACT_START")
      m2 == emitEvent(m1, "ACT_OK")
  IN Ret(m2, ActionResult(TRUE, <<"Cached findings:", Get(input, "content").v>>, Unset, TRUE))

cacheContent(input, env, m) ==
  LET m1 == emitEvent(m, "ACT_START")
      m2 == emitEvent(m1, "ACT_OK")
  IN Ret(m2, ActionResult(FALSE, <<"Cached findings:", Get(input, "content").v>>, Unset, TRUE))

\* scroll_down and scroll_up differ in the page operation and the wording only
scroll(input, env, m, op, word) ==
  LET m1 == emitEvent(m, "ACT_START")
      page == getCurrentPage(m1, env, "true")
      sc == PageOp(page.m, env, op, NoArg)
      amount == IF Get(input, "amount").t # "undefined"
                  THEN <<NumStr(Get(input, "amount").v), "pixels">> ELSE <<"one page">>
  IN IF ~page.ok THEN Throw(page.m, "getCurrentPage")
     ELSE IF ~sc.ok THEN Throw(sc.m, op)
     ELSE Ret(emitEvent(sc.m, "ACT_OK"), ActionResult(FALSE, <<word>> \o amount, Unset, TRUE))

scrollDown(input, env, m) == scroll(input, env, m, "scrollDown", "Scrolled down the page by")

scrollUp(input, env, m) == scroll(input, env, m, "scrollUp", "Scrolled up the page by")

sendKeys(input, env, m) ==
  LET m1 == emitEvent(m, "ACT_START")
      page == getCurrentPage(m1, env, "true")
      sk == PageOp(page.m, env, "sendKeys", NoArg)
  IN IF ~page.ok THEN Throw(page.m, "getCurrentPage")
     ELSE IF ~sk.ok THEN Throw(sk.m, "sendKeys")
     ELSE Ret(emitEvent(sk.m, "ACT_OK"),
              ActionResult(FALSE, <<"Sent keys:", Get(input, "keys").v>>, Unset, TRUE))

\* scroll_to_text reporting an absent text as a failure
scrollToText_NotFoundFails(input, env, m) ==
  LET m1 == emitEvent(m, "ACT_START")
      page == getCurrentPage(m1, env, "true")
      sc == PageOp(page.m, env, "scrollToText", NoArg)
      text == Get(input, "text").v
  IN IF ~page.ok THEN Throw(page.m, "getCurrentPage")
     ELSE IF ~sc.ok \/ ~env.scrolled
       THEN Ret(emitEvent(sc.m, "ACT_FAIL"),
                ActionResult(FALSE, Unset, <<"Failed to scroll to text:", "scrollToText">>, TRUE))
     ELSE Ret(emitEvent(sc.m, "ACT_OK"),
              ActionResult(FALSE, <<"Scrolled to text:", text>>, Unset, TRUE))

scrollToText(input, env, m) ==
  LET m1 == emitEvent(m, "ACT_START")
      page == getCurrentPage(m1, env, "true")
      sc == PageOp(page.m, env, "scrollToText", NoArg)
      text == Get(input, "text").v
      msg == IF env.scrolled THEN <<"Scrolled to text:", text>>
             ELSE <<"Text", text, "not found or not visible on page">>
  IN IF ~page.ok THEN Throw(page.m, "getCurrentPage")
     ELSE IF ~sc.ok
       THEN Ret(emitEvent(sc.m, "ACT_FAIL"),
                ActionResult(FALSE, Unset, <<"Failed to scroll to text:", "scrollToText">>, TRUE))
     ELSE Ret(emitEvent(sc.m, "ACT_OK"), ActionResult(FALSE, msg, Unset, TRUE))

\* JSON.stringify of an option text of the model
JSONstringify(text) == IF text = "a" THEN "\"a\"" ELSE "\"b\""

\* options.map(opt => `${opt.index}: text=${encodedText}`).join('\n')
RECURSIVE formattedOptions(_)
formattedOptions(options) ==
  IF options = <<>> THEN <<>>
  ELSE <<NumStr(Head(options).index), ": text=", JSONstringify(Head(options).text)>>
         \o formattedOptions(Tail(options))

\* page.getDropdownOptions(index) resolving to env.options: a negative count
\* stands for an absent (null) list
OptionsOf(env) ==
  [i \in 1..env.options |-> [index |-> i - 1, text |-> IF i = 1 THEN "a" ELSE "b"]]

\* get_dropdown_options throwing on a missing element, as click_element does
getDropdownOptions_ThrowsOnMissing(input, env, m) ==
  LET m1 == emitEvent(m, "ACT_START")
      page == getCurrentPage(m1, env, "true")
      state == PageOp(page.m, env, "getState", NoArg)
      elementNode == selectorMapGet(env.map, Get(input, "index"))
      idx == Get(input, "index").v
      got == PageOp(state.m, env, "getDropdownOptions", idx)
      options == OptionsOf(env)
  IN IF ~page.ok THEN Throw(page.m, "getCurrentPage")
     ELSE IF ~state.ok THEN Throw(state.m, "getState")
     ELSE IF elementNode = <<>> THEN Throw(state.m, "ElementNotExist")
     ELSE IF ~got.ok
       THEN Ret(emitEvent(got.m, "ACT_FAIL"),
                ActionResult(FALSE, Unset, <<"Failed to get dropdown options:", "getDropdownOptions">>, TRUE))
     ELSE IF env.options >= 0 /\ Len(options) > 0
       THEN Ret(emitEvent(got.m, "ACT_OK"),
                ActionResult(FALSE,
                  formattedOptions(options) \o <<"Use the exact text string in select_dropdown_option">>,
                  Unset, TRUE))
     ELSE Ret(emitEvent(got.m, "ACT_OK"),
              ActionResult(FALSE, <<"No options found in dropdown">>, Unset, TRUE))

getDropdownOptions(input, env, m) ==
  LET m1 == emitEvent(m, "ACT_START")
      page == getCurrentPage(m1, env, "true")
      state == PageOp(page.m, env, "getState", NoArg)
      elementNode == selectorMapGet(env.map, Get(input, "index"))
      idx == Get(input, "index").v
      got == PageOp(state.m, env, "getDropdownOptions", idx)
      options == OptionsOf(env)
  IN IF ~page.ok THEN Throw(page.m, "getCurrentPage")
     ELSE IF ~state.ok THEN Throw(state.m, "getState")
     ELSE IF elementNode = <<>>
       THEN Ret(emitEvent(state.m, "ACT_FAIL"),
                ActionResult(FALSE, Unset, <<"Element with index", NumStr(idx), "does not exist">>, TRUE))
     ELSE IF ~got.ok
       THEN Ret(emitEvent(got.m, "ACT_FAIL"),
                ActionResult(FALSE, Unset, <<"Failed to get dropdown options:", "getDropdownOptions">>, TRUE))
     ELSE IF env.options >= 0 /\ Len(options) > 0
       THEN Ret(emitEvent(got.m, "ACT_OK"),
                ActionResult(FALSE,
                  formattedOptions(options) \o <<"Use the exact text string in select_dropdown_option">>,
                  Unset, TRUE))
     ELSE Ret(emitEvent(got.m, "ACT_OK"),
              ActionResult(FALSE, <<"No options found in dropdown">>, Unset, TRUE))

\* select_dropdown_option without the tag check: the selection is attempted on
\* any resolved element
selectDropdownOption_NoTagCheck(input, env, m) ==
  LET m1 == emitEvent(m, "ACT_START")
      page == getCurrentPage(m1, env, "true")
      state == PageOp(page.m, env, "getState", NoArg)
      elementNode == selectorMapGet(env.map, Get(input, "index"))
      idx == Get(input, "index").v
      sel == PageOp(state.m, env, "selectDropdownOption", idx)
  IN IF ~page.ok THEN Throw(page.m, "getCurrentPage")
     ELSE IF ~state.ok THEN Throw(state.m, "getState")
     ELSE IF elementNode = <<>>
       THEN Ret(emitEvent(state.m, "ACT_FAIL"),
                ActionResult(FALSE, Unset, <<"Element with index", NumStr(idx), "does not exist">>, TRUE))
     ELSE IF ~sel.ok
       THEN Ret(emitEvent(sel.m, "ACT_FAIL"),
                ActionResult(FALSE, Unset, <<"Failed to select option:", "selectDropdownOption">>, TRUE))
     ELSE Ret(emitEvent(sel.m, "ACT_OK"), ActionResult(FALSE, <<"result">>, Unset, TRUE))

\* select_dropdown_option reporting a failed selection through
\* extractedContent, with `error` left unset
selectDropdownOption_FailureUnset(input, env, m) ==
  LET m1 == emitEvent(m, "ACT_START")
      page == getCurrentPage(m1, env, "true")
      state == PageOp(page.m, env, "getState", NoArg)
      elementNode == selectorMapGet(env.map, Get(input, "index"))
      idx == Get(input, "index").v
      sel == PageOp(state.m, env, "selectDropdownOption", idx)
  IN IF ~page.ok THEN Throw(page.m, "getCurrentPage")
     ELSE IF ~state.ok THEN Throw(state.m, "getState")
     ELSE IF elementNode = <<>>
       THEN Ret(emitEvent(state.m, "ACT_FAIL"),
                ActionResult(FALSE, Unset, <<"Element with index", NumStr(idx), "does not exist">>, TRUE))
     ELSE IF elementNode[1].tagName = "" \/ toLowerCase(elementNode[1].tagName) # "select"
       THEN Ret(emitEvent(state.m, "ACT_FAIL"),
                ActionResult(FALSE, Unset,
                  <<"Cannot select option: Element with index", NumStr(idx), "is a",
                    IF elementNode[1].tagName = "" THEN "unknown" ELSE elementNode[1].tagName,
                    "not a SELECT">>, TRUE))
     ELSE IF ~sel.ok
       THEN Ret(emitEvent(sel.m, "ACT_FAIL"),
                ActionResult(FALSE, <<"Failed to select option:", "selectDropdownOption">>, Unset, TRUE))
     ELSE Ret(emitEvent(sel.m, "ACT_OK"), ActionResult(FALSE, <<"result">>, Unset, TRUE))

selectDropdownOption(input, env, m) ==
  LET m1 == emitEvent(m, "ACT_START")
      page == getCurrentPage(m1, env, "true")
      state == PageOp(page.m, env, "getState", NoArg)
      elementNode == selectorMapGet(env.map, Get(input, "index"))
      idx == Get(input, "index").v
      sel == PageOp(state.m, env, "selectDropdownOption", idx)
  IN IF ~page.ok THEN Throw(page.m, "getCurrentPage")
     ELSE IF ~state.ok THEN Throw(state.m, "getState")
     ELSE IF elementNode = <<>>
       THEN Ret(emitEvent(state.m, "ACT_FAIL"),
                ActionResult(FALSE, Unset, <<"Element with index", NumStr(idx), "does not exist">>, TRUE))
     ELSE IF elementNode[1].tagName = "" \/ toLowerCase(elementNode[1].tagName) # "select"
       THEN Ret(emitEvent(state.m, "ACT_FAIL"),
                ActionResult(FALSE, Unset,
                  <<"Cannot select option: Element with index", NumStr(idx), "is a",
                    IF elementNode[1].tagName = "" THEN "unknown" ELSE elementNode[1].tagName,
                    "not a SELECT">>, TRUE))
     ELSE IF ~sel.ok
       THEN Ret(emitEvent(sel.m, "ACT_FAIL"),
                ActionResult(FALSE, Unset, <<"Failed to select option:", "selectDropdownOption">>, TRUE))
     ELSE Ret(emitEvent(sel.m, "ACT_OK"), ActionResult(FALSE, <<"result">>, Unset, TRUE))

(***************************************************************************)
(* Action.call and Action.getIndexArg.                                     *)
(***************************************************************************)
\* the empty-schema test never succeeding
isEmptySchema_Never(schema) == FALSE

\* schema instanceof z.ZodObject && Object.keys(shape || {}).length === 0
isEmptySchema(schema) == Cardinality(DOMAIN schema) = 0

\* An Action: its schema descriptor, its hasIndex flag and its handler.  The
\* handler is the function from the argument it is given to its run in the
\* current state with the current behaviour of the collaborators.
Action(name, handler) ==
  [name |-> name, schema |-> SchemaOf(name), hasIndex |-> HasIndexOf(name),
   handler |-> handler]

\* await this.handler(arg)
Invoked(action, arg) ==
  [invoked |-> TRUE, arg |-> arg, m |-> action.handler[arg].m, out |-> action.handler[arg].out]

\* Action.call without the throw on a failed parse: the handler runs anyway
call_NoThrow(action, input, m) ==
  LET schema == action.schema
      parsedArgs == safeParse(schema, input)
  IN IF Cardinality(DOMAIN schema) = 0 THEN Invoked(action, EmptyObj)
     ELSE Invoked(action, parsedArgs.data)

\* Action.call catching what the handler throws and reporting it as a failure
call_Catching(action, input, m) ==
  LET schema == action.schema
      parsedArgs == safeParse(schema, input)
      arg == IF Cardinality(DOMAIN schema) = 0 THEN EmptyObj ELSE parsedArgs.data
      run == Invoked(action, arg)
  IN IF Cardinality(DOMAIN schema) # 0 /\ ~parsedArgs.success
       THEN [invoked |-> FALSE, arg |-> Undef, m |-> m,
             out |-> Throw(m, "InvalidInputError").out]
     ELSE IF run.out.kind = "throw"
       THEN [invoked |-> TRUE, arg |-> arg, m |-> emitEvent(run.m, "ACT_FAIL"),
             out |-> Ret(run.m, ActionResult(FALSE, Unset, <<run.out.err>>, FALSE)).out]
     ELSE run

call(action, input, m) ==
  LET schema == action.schema
      parsedArgs == safeParse(schema, input)
  IN IF isEmptySchema(schema) THEN Invoked(action, EmptyObj)
     ELSE IF ~parsedArgs.success
       THEN [invoked |-> FALSE, arg |-> Undef, m |-> m,
             out |-> Throw(m, "InvalidInputError").out]
     ELSE Invoked(action, parsedArgs.data)

getIndexArg(action, input) ==
  IF ~action.hasIndex THEN Null
  ELSE IF Truthy(input) /\ TypeOf(input) = "object" /\ HasKey(input, "index")
    THEN input.v["index"]
  ELSE Null

(***************************************************************************)
(* buildDynamicActionSchema: the combined schema is a z.object whose       *)
(* fields are the actions' own object schemas, wrapped.  A field is       *)
(* [shape, nullable, optional].                                            *)
(***************************************************************************)
\* action.schema.schema.nullable().describe(...)
nullable(shape) == [shape |-> shape, nullable |-> TRUE, optional |-> FALSE]

\* schema.extend({[name]: field}): adds the key, or overrides an existing one
extend(schema, name, field) ==
  [key \in DOMAIN schema \cup {name} |-> IF key = name THEN field ELSE schema[key]]

\* schema.partial(): every top-level field becomes optional
partial(schema) == [key \in DOMAIN schema |-> [schema[key] EXCEPT !.optional = TRUE]]

\* the for loop of buildDynamicActionSchema over the remaining actions
RECURSIVE extendAll(_, _)
extendAll(schema, actions) ==
  IF actions = <<>> THEN schema
  ELSE extendAll(extend(schema, Head(actions).name, nullable(Head(actions).schema)),
                 Tail(actions))

\* the combined schema without the final partial(): every action is required
buildDynamicActionSchema_NoPartial(actions) == extendAll(<<>>, actions)

buildDynamicActionSchema(actions) == partial(extendAll(<<>>, actions))

\* zod: parse of one field of the combined schema
DynFieldOk(field, x, key) ==
  IF HasKey(x, key) /\ x.v[key].t # "undefined"
    THEN IF x.v[key].t = "null" THEN field.nullable
         ELSE safeParse(field.shape, x.v[key]).success
    ELSE field.optional

\* zod: combined.safeParse(input).success
dynAccepts(schema, input) ==
  input.t = "object" /\ \A key \in DOMAIN schema : DynFieldOk(schema[key], input, key)

(***************************************************************************)
(* Inputs of the model: the raw arguments the control loop may pass and    *)
(* the behaviour of the collaborators during one invocation.              *)
(***************************************************************************)
\* well-typed values of a schema field
FieldVals(key, type) ==
  IF type = "number"
    THEN CASE key = "index" -> {Num(i) : i \in Indexes}
           [] key = "tab_id" -> {Num(i) : i \in TabIds}
           [] OTHER -> {Num(1)}
    ELSE {Str("a")}

\* an ill-typed value of a schema field
WrongVal(type) == IF type = "number" THEN Str("a") ELSE Num(1)

AllVals == {Num(i) : i \in TabIds \cup Indexes} \cup {Str("a"), Undef}

\* an optional field may also be set to undefined explicitly
UndefVal(field) == IF field.optional THEN {Undef} ELSE {}

\* raw objects over the fields of a schema: any subset of the fields, each
\* with a well-typed or an ill-typed value, an optional one possibly undefined
RawObjects(schema) ==
  UNION {{Obj(f) : f \in {g \in [S -> AllVals] :
                            \A key \in S : g[key] \in FieldVals(key, schema[key].type)
                                                      \cup {WrongVal(schema[key].type)}
                                                      \cup UndefVal(schema[key])}}
         : S \in SUBSET DOMAIN schema}

RawInputs(name) == {Undef, Null, Num(1)} \cup RawObjects(SchemaOf(name))

\* page elements: tag name ("" when absent) and whether page.isFileUploader holds
Element(tagName, uploader) == [tagName |-> tagName, uploader |-> uploader]
Elements ==
  {Element("select", FALSE), Element("SELECT", FALSE), Element("div", FALSE),
   Element("", FALSE), Element("input", TRUE)}

\* the page elements the handler of `name` can tell apart: click_element
\* asks whether the element is a file uploader, select_dropdown_option reads
\* its tag name, the others only need the element to exist
ElementsFor(name) ==
  CASE name = "click_element" -> {e \in Elements : e.tagName \in {"div", "input"}}
    [] name = "select_dropdown_option" -> {e \in Elements : ~e.uploader}
    [] OTHER -> {Element("select", FALSE)}

\* selector maps of the current page: empty, or one indexed element
EmptyMap == <<>>
SelectorMaps(name) ==
  {EmptyMap} \cup {[i \in {k} |-> e] : k \in Indexes, e \in ElementsFor(name)}

\* the collaborator operations a handler may see reject
FailOps(name) ==
  CASE name \in {"done", "cache_content"} -> {"none"}
    [] name \in {"search_google", "go_to_url"} -> {"none", "navigateTo"}
    [] name = "go_back" -> {"none", "getCurrentPage", "goBack"}
    [] name = "click_element" ->
         {"none", "getCurrentPage", "getState", "isFileUploader", "getAllTabIds",
          "clickElementNode", "getAllTabIds2", "switchTab"}
    [] name = "input_text" -> {"none", "getCurrentPage", "getState", "inputTextElementNode"}
    [] name = "switch_tab" -> {"none", "switchTab"}
    [] name = "open_tab" -> {"none", "openTab"}
    [] name = "close_tab" -> {"none", "getCurrentPage", "closeTab"}
    [] name = "extract_content" ->
         {"none", "getCurrentPage", "getReadabilityContent", "promptTemplate.invoke", "invoke"}
    [] name = "scroll_down" -> {"none", "getCurrentPage", "scrollDown"}
    [] name = "scroll_up" -> {"none", "getCurrentPage", "scrollUp"}
    [] name = "send_keys" -> {"none", "getCurrentPage", "sendKeys"}
    [] name = "scroll_to_text" -> {"none", "getCurrentPage", "scrollToText"}
    [] name = "get_dropdown_options" -> {"none", "getCurrentPage", "getState", "getDropdownOptions"}
    [] OTHER -> {"none", "getCurrentPage", "getState", "selectDropdownOption"}

\* the tabs one click may open: distinct fresh ids, in listing order
OpenedSeqs(free) ==
  {s \in UNION {[1..n -> free] : n \in 0..MaxOpened} :
     \A i, j \in DOMAIN s : i # j => s[i] # s[j]}

\* a set of ids in ascending order
RECURSIVE Ascending(_)
Ascending(S) ==
  IF S = {} THEN <<>>
  ELSE LET least == CHOOSE x \in S : \A y \in S : x <= y
       IN <<least>> \o Ascending(S \ {least})

\* the orders in which the second getAllTabIds of a click may list the tabs
\* `now`, as far as find() can tell them apart: the ids of the first snapshot
\* come first, then the ids that appeared since; among these any tab opened
\* by another invocation may come first, the click's own tabs keep the order
\* in which they were opened
TabListings(initialTabIds, opened, now) ==
  LET new == now \ initialTabIds
      own == SelectSeq(opened, LAMBDA id : id \in new)
      firsts == {id \in new : \A i \in DOMAIN opened : opened[i] # id}
                  \cup (IF own = <<>> THEN {} ELSE {Head(own)})
  IN IF new = {} THEN {Ascending(now)}
     ELSE {Ascending(now \ new) \o <<id>> \o Ascending(new \ {id}) : id \in firsts}

\* the collaborators' behaviour during one invocation, before any of its
\* awaits was answered: nothing rejected, nothing read yet
DefaultEnv ==
  [fail |-> "none", map |-> EmptyMap, opened |-> <<>>, listing |-> <<>>, options |-> 0,
   newTab |-> NoTab, scrolled |-> TRUE]

(***************************************************************************)
(* The state machine.  Action.call is async and builder.ts holds no lock:  *)
(* an invocation is a sequence of steps, one per await, and another        *)
(* invocation may be started or resumed between two of them.               *)
(***************************************************************************)
VARIABLES
  tabs,    \* tab ids open in the browser
  cur,     \* the context's current tab (NoTab when it was closed)
  log,     \* the event sink: <<invocation number, phase>> in emission order
  flight,  \* the invocations standing at an await, by invocation number
  last,    \* the invocation that just settled, or NoLast
  ncalls,  \* invocations started so far
  overlap, \* some step was taken while another invocation stood at an await
  idxq,    \* the last getIndexArg query and its answer
  dynq     \* the last combined schema built and the response checked against it

vars == <<tabs, cur, log, flight, last, ncalls, overlap, idxq, dynq>>

NoLast ==
  [id |-> 0, name |-> "none", raw |-> Undef, env |-> DefaultEnv, invoked |-> FALSE,
   arg |-> Undef, pre |-> [tabs |-> {}, cur |-> NoTab], trace |-> <<>>, hist |-> <<>>,
   alone |-> TRUE, out |-> [kind |-> "none", res |-> NoResult, err |-> "none"]]

NoQuery == [name |-> "none", input |-> Undef, ret |-> Null]

NoSchema == [built |-> FALSE, names |-> <<>>, schema |-> <<>>, input |-> Undef, success |-> FALSE]

Init ==
  /\ tabs = {1}
  /\ cur = 1
  /\ log = <<>>
  /\ flight = <<>>
  /\ last = NoLast
  /\ ncalls = 0
  /\ overlap = FALSE
  /\ idxq = NoQuery
  /\ dynq = NoSchema

\* the events of a trace, in order
EventsOf(trace) == SelectSeq(trace, LAMBDA e : e.k = "emit")

\* the arguments Action.call may hand to the handler for this raw input
HandlerArgs(name, raw) == {EmptyObj, safeParse(SchemaOf(name), raw).data}

\* the caller has taken the outcome of every settled invocation
Idle == last.name = "none"

\* an invocation about to be started with this raw input
NewCall(name, raw) ==
  [NoLast EXCEPT !.id = ncalls + 1, !.name = name, !.raw = raw,
                 !.pre = [tabs |-> tabs, cur |-> cur]]

\* the invocations of the action `name` that may take a step: a new one, with
\* any raw input, or one standing at an await
Turns(name) ==
  {[id |-> ncalls + 1, raw |-> raw] :
     raw \in IF ncalls < MaxCalls THEN RawInputs(name) ELSE {}}
    \cup {[id |-> i, raw |-> flight[i].raw] :
            i \in {j \in DOMAIN flight : flight[j].name = name}}

CallOf(name, turn) ==
  IF turn.id \in DOMAIN flight THEN flight[turn.id] ELSE NewCall(name, turn.raw)

\* the first tab listing an invocation received
Snapshot(c) ==
  LET calls == CallsOf(c.trace)
      at == {i \in DOMAIN calls : calls[i].op = "getAllTabIds"}
  IN IF at = {} THEN {} ELSE c.hist[CHOOSE i \in at : \A j \in at : i <= j].val

\* what the collaborator may answer to the await `at` of invocation c: it
\* rejects, or resolves with any of the values it can yield in this state
AnswersAt(at, c) ==
  LET env == c.env
      free == TabIds \ tabs
  IN {[env EXCEPT !.fail = at]} \cup
     CASE at = "getState" -> {[env EXCEPT !.map = map] : map \in SelectorMaps(c.name)}
       [] at = "clickElementNode" ->
            {[env EXCEPT !.opened = opened] : opened \in OpenedSeqs(free)}
       [] at = "getAllTabIds2" ->
            {[env EXCEPT !.listing = listing] :
               listing \in TabListings(Snapshot(c), env.opened, tabs)}
       [] at = "getDropdownOptions" ->
            {[env EXCEPT !.options = n] : n \in (0 - 1)..MaxOptions}
       [] at = "openTab" -> {[env EXCEPT !.newTab = id] : id \in free}
       [] at = "scrollToText" -> {[env EXCEPT !.scrolled = found] : found \in BOOLEAN}
       [] OTHER -> {env}

\* the answers to consider for the next step of invocation c: none for the
\* synchronous start of a new invocation, one per await and outcome otherwise
Answers(c) ==
  IF c.id \notin DOMAIN flight THEN {[at |-> "none", env |-> c.env]}
  ELSE UNION {{[at |-> at, env |-> env] : env \in AnswersAt(at, c)} :
              at \in FailOps(c.name) \ {"none"}}

\* the state a step of invocation c runs in: a new invocation runs up to its
\* first await, a suspended one has its pending await answered
Mc(c) ==
  [tabs |-> tabs, cur |-> cur, trace |-> <<>>, hist |-> c.hist,
   budget |-> IF c.id \in DOMAIN flight THEN "one" ELSE "none",
   susp |-> FALSE, live |-> "none"]

\* one step of action.call(raw) for invocation c: Action.call is entered (or
\* resumed at the await `at`, answered as env tells) and runs until its
\* handler stands at the next await or the call settles
Step(c, at, env, handler) ==
  LET r == call(Action(c.name, handler), c.raw, Mc(c))
      ev == EventsOf(r.m.trace)
      seen == Len(EventsOf(c.trace))
      rec == [c EXCEPT !.env = env, !.invoked = r.invoked, !.arg = r.arg,
                       !.trace = r.m.trace, !.hist = r.m.hist,
                       !.out = IF r.m.susp THEN NoLast.out ELSE r.out]
      others == DOMAIN flight \ {c.id}
  IN /\ r.m.live = at
     /\ tabs' = r.m.tabs
     /\ cur' = r.m.cur
     /\ log' = log \o [i \in 1..(Len(ev) - seen) |-> <<c.id, ev[seen + i].op>>]
     /\ flight' = [i \in IF r.m.susp THEN others \cup {c.id} ELSE others |->
                     IF i = c.id THEN rec ELSE [flight[i] EXCEPT !.alone = FALSE]]
     /\ last' = IF r.m.susp THEN NoLast ELSE rec
     /\ ncalls' = IF c.id \in DOMAIN flight THEN ncalls ELSE ncalls + 1
     /\ overlap' = (overlap \/ others # {})
     /\ UNCHANGED <<idxq, dynq>>

Done ==
  /\ Idle
  /\ \E turn \in Turns("done") :
       LET c == CallOf("done", turn)
       IN \E a \in Answers(c) :
            Step(c, a.at, a.env,
                 [arg \in HandlerArgs("done", c.raw) |-> done(arg, a.env, Mc(c))])

SearchGoogle ==
  /\ Idle
  /\ \E turn \in Turns("search_google") :
       LET c == CallOf("search_google", turn)
       IN \E a \in Answers(c) :
            Step(c, a.at, a.env,
                 [arg \in HandlerArgs("search_google", c.raw) |-> searchGoogle(arg, a.env, Mc(c))])

GoToUrl ==
  /\ Idle
  /\ \E turn \in Turns("go_to_url") :
       LET c == CallOf("go_to_url", turn)
       IN \E a \in Answers(c) :
            Step(c, a.at, a.env,
                 [arg \in HandlerArgs("go_to_url", c.raw) |-> goToUrl(arg, a.env, Mc(c))])

GoBack ==
  /\ Idle
  /\ \E turn \in Turns("go_back") :
       LET c == CallOf("go_back", turn)
       IN \E a \in Answers(c) :
            Step(c, a.at, a.env,
                 [arg \in HandlerArgs("go_back", c.raw) |-> goBack(arg, a.env, Mc(c))])

ClickElement ==
  /\ Idle
  /\ \E turn \in Turns("click_element") :
       LET c == CallOf("click_element", turn)
       IN \E a \in Answers(c) :
            Step(c, a.at, a.env,
                 [arg \in HandlerArgs("click_element", c.raw) |-> clickElement(arg, a.env, Mc(c))])

InputText ==
  /\ Idle
  /\ \E turn \in Turns("input_text") :
       LET c == CallOf("input_text", turn)
       IN \E a \in Answers(c) :
            Step(c, a.at, a.env,
                 [arg \in HandlerArgs("input_text", c.raw) |-> inputText(arg, a.env, Mc(c))])

SwitchTab ==
  /\ Idle
  /\ \E turn \in Turns("switch_tab") :
       LET c == CallOf("switch_tab", turn)
       IN \E a \in Answers(c) :
            Step(c, a.at, a.env,
                 [arg \in HandlerArgs("switch_tab", c.raw) |-> switchTab(arg, a.env, Mc(c))])

OpenTab ==
  /\ Idle
  /\ \E turn \in Turns("open_tab") :
       LET c == CallOf("open_tab", turn)
       IN \E a \in Answers(c) :
            Step(c, a.at, a.env,
                 [arg \in HandlerArgs("open_tab", c.raw) |-> openTab(arg, a.env, Mc(c))])

CloseTab ==
  /\ Idle
  /\ \E turn \in Turns("close_tab") :
       LET c == CallOf("close_tab", turn)
       IN \E a \in Answers(c) :
            Step(c, a.at, a.env,
                 [arg \in HandlerArgs("close_tab", c.raw) |-> closeTab(arg, a.env, Mc(c))])

ExtractContent ==
  /\ Idle
  /\ \E turn \in Turns("extract_content") :
       LET c == CallOf("extract_content", turn)
       IN \E a \in Answers(c) :
            Step(c, a.at, a.env,
                 [arg \in HandlerArgs("extract_content", c.raw) |-> extractContent(arg, a.env, Mc(c))])

CacheContent ==
  /\ Idle
  /\ \E turn \in Turns("cache_content") :
       LET c == CallOf("cache_content", turn)
       IN \E a \in Answers(c) :
            Step(c, a.at, a.env,
                 [arg \in HandlerArgs("cache_content", c.raw) |-> cacheContent(arg, a.env, Mc(c))])

ScrollDown ==
  /\ Idle
  /\ \E turn \in Turns("scroll_down") :
       LET c == CallOf("scroll_down", turn)
       IN \E a \in Answers(c) :
            Step(c, a.at, a.env,
                 [arg \in HandlerArgs("scroll_down", c.raw) |-> scrollDown(arg, a.env, Mc(c))])

ScrollUp ==
  /\ Idle
  /\ \E turn \in Turns("scroll_up") :
       LET c == CallOf("scroll_up", turn)
       IN \E a \in Answers(c) :
            Step(c, a.at, a.env,
                 [arg \in HandlerArgs("scroll_up", c.raw) |-> scrollUp(arg, a.env, Mc(c))])

SendKeys ==
  /\ Idle
  /\ \E turn \in Turns("send_keys") :
       LET c == CallOf("send_keys", turn)
       IN \E a \in Answers(c) :
            Step(c, a.at, a.env,
                 [arg \in HandlerArgs("send_keys", c.raw) |-> sendKeys(arg, a.env, Mc(c))])

ScrollToText ==
  /\ Idle
  /\ \E turn \in Turns("scroll_to_text") :
       LET c == CallOf("scroll_to_text", turn)
       IN \E a \in Answers(c) :
            Step(c, a.at, a.env,
                 [arg \in HandlerArgs("scroll_to_text", c.raw) |-> scrollToText(arg, a.env, Mc(c))])

GetDropdownOptions ==
  /\ Idle
  /\ \E turn \in Turns("get_dropdown_options") :
       LET c == CallOf("get_dropdown_options", turn)
       IN \E a \in Answers(c) :
            Step(c, a.at, a.env,
                 [arg \in HandlerArgs("get_dropdown_options", c.raw) |-> getDropdownOptions(arg, a.env, Mc(c))])

SelectDropdownOption ==
  /\ Idle
  /\ \E turn \in Turns("select_dropdown_option") :
       LET c == CallOf("select_dropdown_option", turn)
       IN \E a \in Answers(c) :
            Step(c, a.at, a.env,
                 [arg \in HandlerArgs("select_dropdown_option", c.raw) |-> selectDropdownOption(arg, a.env, Mc(c))])

\* the caller takes the outcome of the invocation that settled
Proceed ==
  /\ ~Idle
  /\ last' = NoLast
  /\ UNCHANGED <<tabs, cur, log, flight, ncalls, overlap, idxq, dynq>>

Next ==
  \/ Done \/ SearchGoogle \/ GoToUrl \/ GoBack \/ ClickElement \/ InputText
  \/ SwitchTab \/ OpenTab \/ CloseTab \/ ExtractContent \/ CacheContent
  \/ ScrollDown \/ ScrollUp \/ SendKeys \/ ScrollToText
  \/ GetDropdownOptions \/ SelectDropdownOption
  \/ Proceed

Spec == Init /\ [][Next]_vars

(***************************************************************************)
(* getIndexArg as its callers use it: a pure query on the raw input.      *)
(***************************************************************************)
IndexInputs ==
  {Undef, Null, Num(0), Num(1), Str("a"), EmptyObj, Obj("other" :> Num(1))}
    \cup {Obj("index" :> x) : x \in {Num(i) : i \in Indexes} \cup {Str("a"), Null}}
    \cup {Obj(("index" :> Num(i)) @@ ("text" :> Str("a"))) : i \in Indexes}

GetIndexArg ==
  /\ \E name \in ActionNames, input \in IndexInputs :
       idxq' = [name |-> name, input |-> input,
                ret |-> getIndexArg(Action(name, <<>>), input)]
  /\ UNCHANGED <<tabs, cur, log, flight, last, ncalls, overlap, dynq>>

SpecIndex == Init /\ [][GetIndexArg]_vars

(***************************************************************************)
(* buildDynamicActionSchema as the control loop uses it: built from a list *)
(* of actions, then used to validate one model response.                  *)
(***************************************************************************)
\* the actions the list is drawn from: required, optional and no sub-fields
DynNames == {"done", "go_back", "click_element", "close_tab"}

\* action lists up to MaxActions long
ActionLists == UNION {[1..n -> DynNames] : n \in 0..MaxActions}

\* a value a model response may give to the field of an action: null, a valid
\* argument object, an object without the action's fields, or a number
DynVals(name) ==
  {Null, EmptyObj, Num(1)}
    \cup {Obj(f) : f \in {g \in [DOMAIN SchemaOf(name) -> AllVals] :
                            \A key \in DOMAIN g :
                              g[key] \in FieldVals(key, SchemaOf(name)[key].type)}}

\* model responses: objects over any subset of the action names, and non-objects
DynInputs ==
  {Undef, Null, Str("a")}
    \cup UNION {{Obj(f) : f \in {g \in [S -> UNION {DynVals(n) : n \in DynNames}] :
                                   \A n \in S : g[n] \in DynVals(n)}}
                : S \in SUBSET DynNames}

\* the combined schema is built once per run
BuildDynamicActionSchema ==
  /\ ~dynq.built
  /\ \E names \in ActionLists, input \in DynInputs :
       LET schema == buildDynamicActionSchema([i \in DOMAIN names |-> Action(names[i], <<>>)])
       IN dynq' = [built |-> TRUE, names |-> names, schema |-> schema, input |-> input,
                   success |-> dynAccepts(schema, input)]
  /\ UNCHANGED <<tabs, cur, log, flight, last, ncalls, overlap, idxq>>

SpecDyn == Init /\ [][BuildDynamicActionSchema]_vars

(***************************************************************************)
(* Properties.                                                             *)
(***************************************************************************)
\* the registry: the handler buildDefaultActions binds to each action name
HandlerRun(name, arg, env, m) ==
  CASE name = "done" -> done(arg, env, m)
    [] name = "search_google" -> searchGoogle(arg, env, m)
    [] name = "go_to_url" -> goToUrl(arg, env, m)
    [] name = "go_back" -> goBack(arg, env, m)
    [] name = "click_element" -> clickElement(arg, env, m)
    [] name = "input_text" -> inputText(arg, env, m)
    [] name = "switch_tab" -> switchTab(arg, env, m)
    [] name = "open_tab" -> openTab(arg, env, m)
    [] name = "close_tab" -> closeTab(arg, env, m)
    [] name = "extract_content" -> extractContent(arg, env, m)
    [] name = "cache_content" -> cacheContent(arg, env, m)
    [] name = "scroll_down" -> scrollDown(arg, env, m)
    [] name = "scroll_up" -> scrollUp(arg, env, m)
    [] name = "send_keys" -> sendKeys(arg, env, m)
    [] name = "scroll_to_text" -> scrollToText(arg, env, m)
    [] name = "get_dropdown_options" -> getDropdownOptions(arg, env, m)
    [] OTHER -> selectDropdownOption(arg, env, m)

Active == last.name # "none"
Terminal == {"ACT_OK", "ACT_FAIL"}
\* phases emitted by the invocation under observation, in order
Phases == [i \in 1..Len(EventsOf(last.trace)) |-> EventsOf(last.trace)[i].op]
\* collaborator operations called by the invocation under observation
Called(op) == \E i \in DOMAIN last.trace : last.trace[i].k = "call" /\ last.trace[i].op = op
CountOf(seq, S) == Cardinality({i \in DOMAIN seq : seq[i] \in S})
\* the state the invocation under observation started from, for a run of
\* its handler to completion with no other invocation in between
PreM ==
  [tabs |-> last.pre.tabs, cur |-> last.pre.cur, trace |-> <<>>, hist |-> <<>>,
   budget |-> "all", susp |-> FALSE, live |-> "none"]
\* the same, for a run whose awaits receive the answers the invocation received
ReplayM == [PreM EXCEPT !.hist = last.hist, !.budget = "none"]
\* the invocation under observation awaited `op` and the collaborator resolved it
Answered(op) ==
  \E i \in DOMAIN last.hist : CallsOf(last.trace)[i].op = op /\ last.hist[i].ok
\* some await of the invocation under observation was rejected
Rejected == \E i \in DOMAIN last.hist : ~last.hist[i].ok
\* the page and its selector map were obtained by the handler
PageStateRead ==
  last.invoked /\ Answered("getCurrentPage") /\ Answered("getState")
\* the index argument is not a key of the page's selector map
IndexMissing == last.invoked /\ selectorMapGet(last.env.map, Get(last.arg, "index")) = <<>>

\* C1: in every invocation, on returning and on throwing paths alike, at most
\* one ACT_START and at most one terminal event (ACT_OK or ACT_FAIL) are
\* emitted, and a terminal event is always preceded by an ACT_START of the
\* same invocation.
C1_StartBeforeTerminal ==
  Active =>
    /\ CountOf(Phases, {"ACT_START"}) <= 1
    /\ CountOf(Phases, Terminal) <= 1
    /\ \A i \in DOMAIN Phases :
         Phases[i] \in Terminal => \E j \in 1..(i - 1) : Phases[j] = "ACT_START"

\* a click whose dispatch failed: ACT_START, then ACT_FAIL from the catch
C1_Witness ==
  /\ last.name = "click_element"
  /\ last.env.fail = "clickElementNode"
  /\ Phases = <<"ACT_START", "ACT_FAIL">>

\* C2 (as claimed): whenever a handler returns an ActionResult, the invocation
\* has emitted exactly one ACT_START followed by exactly one terminal event.
C2_ReturnEmitsStartThenTerminal ==
  (Active /\ last.out.kind = "return") =>
    /\ Len(Phases) = 2
    /\ Phases[1] = "ACT_START"
    /\ Phases[2] \in Terminal

\* C3 (as claimed): when the invocations were executed one after the other
\* and none is in flight, the event log alternates; every ACT_START is
\* directly followed by a terminal event of the same invocation, and every
\* terminal event directly follows an ACT_START of its invocation.
C3_LogAlternates ==
  (~overlap /\ DOMAIN flight = {}) =>
    \A i \in DOMAIN log :
      IF log[i][2] = "ACT_START"
        THEN i < Len(log) /\ log[i + 1][2] \in Terminal /\ log[i + 1][1] = log[i][1]
        ELSE i > 1 /\ log[i - 1][2] = "ACT_START" /\ log[i - 1][1] = log[i][1]

\* C4: for an action whose schema has at least one field, a raw input that
\* fails validation (an absent input always does) makes Action.call fail with
\* InvalidInputError without invoking the handler: no event, no collaborator
\* call, tabs and current tab unchanged.
C4_InvalidInputBlocksHandler ==
  (Active /\ DOMAIN SchemaOf(last.name) # {}
     /\ (last.raw.t # "object" \/ ~safeParse(SchemaOf(last.name), last.raw).success)) =>
    /\ last.out.kind = "throw"
    /\ last.out.err = "InvalidInputError"
    /\ ~last.invoked
    /\ last.trace = <<>>
    /\ \A i \in DOMAIN log : log[i][1] # last.id
    /\ tabs = last.pre.tabs
    /\ cur = last.pre.cur

\* click_element called with an object whose index is a string
C4_Witness ==
  /\ last.name = "click_element"
  /\ HasKey(last.raw, "index")
  /\ last.raw.v["index"].t = "string"
  /\ last.out.err = "InvalidInputError"

\* C5: for an action whose schema is an object schema without fields, every
\* raw input skips validation: the handler is invoked with an empty object,
\* InvalidInputError is never raised, and events, collaborator calls and
\* outcome are those of call({}) receiving the same answers from the
\* collaborators; run with no other invocation in between, it also leaves the
\* tab state call({}) leaves from the same state.
C5_EmptySchemaIgnoresInput ==
  (Active /\ DOMAIN SchemaOf(last.name) = {}) =>
    LET same == call(Action(last.name,
                            [arg \in {EmptyObj} |-> HandlerRun(last.name, arg, last.env, ReplayM)]),
                     EmptyObj, ReplayM)
        ref == call(Action(last.name,
                           [arg \in {EmptyObj} |-> HandlerRun(last.name, arg, last.env, PreM)]),
                    EmptyObj, PreM)
    IN /\ last.invoked
       /\ last.arg = EmptyObj
       /\ last.out.err # "InvalidInputError"
       /\ last.out = same.out
       /\ last.trace = same.m.trace
       /\ last.alone =>
            /\ last.out = ref.out
            /\ last.trace = ref.m.trace
            /\ tabs = ref.m.tabs
            /\ cur = ref.m.cur

\* go_back called with no input at all, and returning
C5_Witness ==
  /\ last.name = "go_back"
  /\ last.raw = Undef
  /\ last.invoked
  /\ last.out.kind = "return"
  /\ Phases = <<"ACT_START", "ACT_OK">>

\* C6: when the handler throws after validation succeeded, Action.call throws
\* the same exception, returns no ActionResult and adds no event of its own
\* (in particular no ACT_FAIL) to what the handler emitted.
C6_HandlerThrowPropagates ==
  (Active /\ last.invoked) =>
    LET run == HandlerRun(last.name, last.arg, last.env, ReplayM)
    IN run.out.kind = "throw" =>
         /\ last.out.kind = "throw"
         /\ last.out.err = run.out.err
         /\ last.out.res = NoResult
         /\ last.trace = run.m.trace
         /\ "ACT_FAIL" \notin {Phases[i] : i \in DOMAIN Phases}

\* go_to_url whose navigation rejects
C6_Witness ==
  /\ last.name = "go_to_url"
  /\ last.invoked
  /\ last.env.fail = "navigateTo"
  /\ last.out.kind = "throw"
  /\ last.out.err = "navigateTo"

\* C7 (as claimed): with hasIndex set, getIndexArg returns the index exactly
\* when the input is an object with a numeric `index` field and null for every
\* other input; without hasIndex it returns null.
C7_IndexArgNumericOrNull ==
  idxq.name # "none" =>
    IF HasIndexOf(idxq.name) /\ HasKey(idxq.input, "index")
         /\ idxq.input.v["index"].t = "number"
      THEN idxq.ret = idxq.input.v["index"]
      ELSE idxq.ret = Null

\* the click of the invocation under observation was dispatched and both tab
\* listings succeeded, with no other invocation in between
ClickDispatched ==
  /\ last.name = "click_element"
  /\ last.invoked
  /\ last.alone
  /\ Called("clickElementNode")
  /\ last.env.fail \in {"none", "switchTab"}
SwitchCalls == {i \in DOMAIN last.trace : last.trace[i].op = "switchTab"}

\* C8 (as claimed): when the click makes the tab set grow by exactly one id,
\* switchTab is called once, with that id, whatever its value, and the current
\* tab is then the new tab; when the tab set does not grow, switchTab is not
\* called.
C8_SwitchesToNewTab ==
  ClickDispatched =>
    /\ Len(last.env.opened) = 1 =>
         /\ Cardinality(SwitchCalls) = 1
         /\ \A i \in SwitchCalls : last.trace[i].arg = last.env.opened[1]
         /\ last.env.fail = "none" => cur = last.env.opened[1]
    /\ Len(last.env.opened) = 0 => SwitchCalls = {}

\* C9: get_dropdown_options and select_dropdown_option on an index that is
\* not in the selector map of the current page do not throw: ACT_START then
\* ACT_FAIL, a result with `error` set, and no call of page.getDropdownOptions
\* or page.selectDropdownOption.
C9_DropdownMissingIndexFails ==
  (last.name \in {"get_dropdown_options", "select_dropdown_option"}
     /\ PageStateRead /\ IndexMissing) =>
    /\ last.out.kind = "return"
    /\ last.out.res.error # Unset
    /\ Phases = <<"ACT_START", "ACT_FAIL">>
    /\ ~Called("getDropdownOptions")
    /\ ~Called("selectDropdownOption")

\* select_dropdown_option on index 0 while the page only has element 1
C9_Witness ==
  /\ last.name = "select_dropdown_option"
  /\ PageStateRead
  /\ IndexMissing
  /\ DOMAIN last.env.map = {1}
  /\ last.out.res.error # Unset

\* C10: click_element and input_text on an index that is not in the selector
\* map of the current page throw, return no ActionResult, and neither click
\* nor type into any element.
C10_ClickInputMissingIndexThrows ==
  (last.name \in {"click_element", "input_text"} /\ IndexMissing) =>
    /\ last.out.kind = "throw"
    /\ last.out.res = NoResult
    /\ PageStateRead => last.out.err = "ElementNotExist"
    /\ ~Called("clickElementNode")
    /\ ~Called("inputTextElementNode")

\* input_text on index 0 while the page only has element 1
C10_Witness ==
  /\ last.name = "input_text"
  /\ PageStateRead
  /\ IndexMissing
  /\ DOMAIN last.env.map = {1}
  /\ last.out.err = "ElementNotExist"

\* C11 (as claimed): click_element turns both an index missing from the
\* selector map and a failing click dispatch into a returned ActionResult with
\* `error` set, and throws for neither.
C11_ClickFailuresReturned ==
  (last.name = "click_element" /\ PageStateRead
     /\ (IndexMissing \/ (Called("clickElementNode") /\ last.env.fail = "clickElementNode"))) =>
    /\ last.out.kind = "return"
    /\ last.out.res.error # Unset

\* C12: scroll_to_text whose page.scrollToText resolves to false (text absent)
\* returns a result with `error` unset and an extractedContent saying the text
\* was not found, and its terminal event is ACT_OK.
C12_TextNotFoundIsSuccess ==
  (last.name = "scroll_to_text" /\ last.invoked /\ Answered("scrollToText")
     /\ ~last.env.scrolled) =>
    /\ last.out.kind = "return"
    /\ last.out.res.error = Unset
    /\ last.out.res.extractedContent =
         <<"Text", Get(last.arg, "text").v, "not found or not visible on page">>
    /\ Phases = <<"ACT_START", "ACT_OK">>

\* scroll_to_text on a page that does not hold the text
C12_Witness ==
  /\ last.name = "scroll_to_text"
  /\ last.invoked
  /\ ~last.env.scrolled
  /\ last.env.fail = "none"
  /\ last.out.kind = "return"
  /\ Called("scrollToText")

\* a part of a message built from a template
Contains(msg, part) == \E i \in DOMAIN msg : msg[i] = part
\* the collaborator calls of the invocation under observation, in order
Calls == SelectSeq(last.trace, LAMBDA e : e.k = "call")

\* C14: an open_tab that returns has emitted ACT_START then ACT_OK and nothing
\* else, has asked the collaborator once for a tab with background = true, and
\* returns a result with `error` unset whose extractedContent holds the url,
\* the id of the tab openTab returned and "background mode"; with no other
\* invocation in between, the tab set has grown by exactly that tab.
C14_OpenTabSuccess ==
  (last.name = "open_tab" /\ last.invoked /\ last.out.kind = "return") =>
    /\ Phases = <<"ACT_START", "ACT_OK">>
    /\ Len(Calls) = 1
    /\ Calls[1].op = "openTab"
    /\ Calls[1].bg = "true"
    /\ last.out.res.error = Unset
    /\ Contains(last.out.res.extractedContent, Get(last.arg, "url").v)
    /\ Contains(last.out.res.extractedContent, NumStr(last.env.newTab))
    /\ Contains(last.out.res.extractedContent, "background mode")
    /\ last.alone => tabs = last.pre.tabs \cup {last.env.newTab}

\* open_tab({url}) opening tab 2 next to tab 1
C14_Witness ==
  /\ last.name = "open_tab"
  /\ last.out.kind = "return"
  /\ last.env.newTab = 2
  /\ 2 \in tabs
  /\ 2 \notin last.pre.tabs

\* C16: done on a validated input emits ACT_START then ACT_OK, calls no
\* collaborator, never throws, and returns isDone = true with the supplied
\* text as extractedContent.
C16_DoneNeverFails ==
  (last.name = "done" /\ last.invoked) =>
    /\ last.out.kind = "return"
    /\ Phases = <<"ACT_START", "ACT_OK">>
    /\ Calls = <<>>
    /\ last.out.res.isDone = TRUE
    /\ last.out.res.extractedContent = <<Get(last.raw, "text").v>>
    /\ last.out.res.error = Unset
    /\ tabs = last.pre.tabs
    /\ cur = last.pre.cur

\* done({text: "a"})
C16_Witness ==
  /\ last.name = "done"
  /\ last.invoked
  /\ Get(last.raw, "text") = Str("a")
  /\ last.out.res.isDone = TRUE

\* the tab ids the invocation under observation asked the collaborator to close
ClosedIds == {Calls[i].arg : i \in {j \in DOMAIN Calls : Calls[j].op = "closeTab"}}

\* C15: close_tab called without tab_id, after any earlier invocations, asks
\* the collaborator to close exactly the tab getCurrentPage answered in this
\* very invocation; run after the earlier invocations and with none in
\* between, that is the tab that was the context's current tab when the
\* invocation started, and when it returns, that tab and no other has left
\* the tab set.
C15_CloseTabClosesCurrent ==
  (last.name = "close_tab" /\ last.invoked /\ Get(last.arg, "tab_id") = Undef) =>
    /\ ClosedIds # {} =>
         /\ Calls[1].op = "getCurrentPage"
         /\ last.hist[1].ok
         /\ ClosedIds = {last.hist[1].val}
    /\ last.alone => ClosedIds \subseteq {last.pre.cur}
    /\ last.out.kind = "return" =>
         /\ ClosedIds # {}
         /\ Contains(last.out.res.extractedContent, NumStr(last.hist[1].val))
         /\ last.alone =>
              /\ ClosedIds = {last.pre.cur}
              /\ tabs = last.pre.tabs \ {last.pre.cur}

\* close_tab({}) as second invocation, after the first one moved the current
\* tab away from the initial tab 1
C15_Witness ==
  /\ last.name = "close_tab"
  /\ last.raw = EmptyObj
  /\ ncalls = 2
  /\ ~overlap
  /\ last.pre.cur \notin {1, NoTab}
  /\ 1 \in tabs
  /\ last.out.kind = "return"
  /\ ClosedIds = {last.pre.cur}

\* C17 (as claimed): extract_content never throws; whichever step fails, it
\* returns a result telling the caller to extract from the visible page state.
C17_ExtractNeverThrows ==
  (last.name = "extract_content" /\ last.invoked) =>
    /\ last.out.kind = "return"
    /\ Rejected =>
         last.out.res.extractedContent = <<"Failed to extract content from page, you need to extract content from the current state of the page and store it in the memory. Then scroll down if you still need more information.">>

\* the element the index argument of the invocation under observation resolves to
Resolved == selectorMapGet(last.env.map, Get(last.arg, "index"))
\* the resolved element is a <select>, whatever the case of its tag name
IsSelect == Resolved # <<>> /\ Resolved[1].tagName # ""
              /\ toLowerCase(Resolved[1].tagName) = "select"

\* an expected operational failure that the handler of the invocation under
\* observation met and handled by returning
HandledFailure ==
  /\ last.invoked
  /\ last.out.kind = "return"
  /\ \/ /\ last.name \in {"get_dropdown_options", "select_dropdown_option"}
        /\ PageStateRead /\ IndexMissing
     \/ /\ last.name = "select_dropdown_option"
        /\ PageStateRead /\ ~IndexMissing /\ ~IsSelect
     \/ /\ last.name = "get_dropdown_options" /\ Called("getDropdownOptions")
        /\ last.env.fail = "getDropdownOptions"
     \/ /\ last.name = "select_dropdown_option" /\ Called("selectDropdownOption")
        /\ last.env.fail = "selectDropdownOption"
     \/ /\ last.name = "scroll_to_text" /\ Called("scrollToText")
        /\ last.env.fail = "scrollToText"
     \/ /\ last.name = "click_element" /\ Called("clickElementNode")
        /\ last.env.fail = "clickElementNode"
     \/ /\ last.name = "extract_content" /\ Called("invoke")
        /\ last.env.fail = "invoke"

\* C18 (as claimed): every expected operational failure handled inside a
\* handler is returned with the `error` field set.
C18_HandledFailureSetsError ==
  HandledFailure => last.out.res.error # Unset

\* C19 (as claimed): get_dropdown_options on a present element returns a
\* failed result with ACT_FAIL whenever the dropdown read throws or yields an
\* empty or absent list, never throws, and answers ACT_OK with the options
\* listed only for a non-empty list.
C19_ZeroOptionsFails ==
  (last.name = "get_dropdown_options" /\ PageStateRead /\ ~IndexMissing) =>
    /\ last.out.kind = "return"
    /\ IF last.env.fail = "none" /\ last.env.options > 0
         THEN /\ Phases = <<"ACT_START", "ACT_OK">>
              /\ last.out.res.error = Unset
              /\ last.out.res.extractedContent =
                   formattedOptions(OptionsOf(last.env))
                     \o <<"Use the exact text string in select_dropdown_option">>
         ELSE /\ Phases = <<"ACT_START", "ACT_FAIL">>
              /\ last.out.res.error # Unset

\* C20: select_dropdown_option on a resolved element: if its tag is absent or
\* is not `select` (compared without regard to case) the handler returns a
\* failed result with ACT_FAIL and never calls page.selectDropdownOption; if
\* it is a select, the selection is attempted, and its failure is returned as a
\* failed result with ACT_FAIL, not thrown.
C20_SelectTagAndFailure ==
  (last.name = "select_dropdown_option" /\ PageStateRead /\ ~IndexMissing) =>
    /\ last.out.kind = "return"
    /\ ~IsSelect =>
         /\ ~Called("selectDropdownOption")
         /\ Phases = <<"ACT_START", "ACT_FAIL">>
         /\ last.out.res.error # Unset
    /\ IsSelect =>
         /\ Called("selectDropdownOption")
         /\ IF last.env.fail = "selectDropdownOption"
              THEN /\ Phases = <<"ACT_START", "ACT_FAIL">>
                   /\ last.out.res.error # Unset
              ELSE /\ Phases = <<"ACT_START", "ACT_OK">>
                   /\ last.out.res.error = Unset

\* select_dropdown_option on a <div>
C20_Witness ==
  /\ last.name = "select_dropdown_option"
  /\ PageStateRead
  /\ Resolved # <<>>
  /\ Resolved[1].tagName = "div"
  /\ Phases = <<"ACT_START", "ACT_FAIL">>
  /\ ~Called("selectDropdownOption")

\* the distinct action names of the list the combined schema was built from
DynNameSet == {dynq.names[i] : i \in DOMAIN dynq.names}
\* the fields of the response that carry a value (neither absent nor null)
Populated ==
  IF dynq.input.t # "object" THEN {}
  ELSE {name \in DOMAIN dynq.input.v \cap DynNameSet :
          dynq.input.v[name].t \notin {"undefined", "null"}}

\* C13: the schema built from a list of actions has one top-level field per
\* distinct action name (N fields for N distinct names) and no other; each
\* field carries the action's own schema and is optional and nullable; so an
\* object response is accepted exactly when each populated field satisfies its
\* action's schema, whether zero, one or several fields are populated.
C13_DynamicSchemaFields ==
  dynq.built =>
    /\ DOMAIN dynq.schema = DynNameSet
    /\ (\A i, j \in DOMAIN dynq.names : i # j => dynq.names[i] # dynq.names[j])
         => Cardinality(DOMAIN dynq.schema) = Len(dynq.names)
    /\ \A name \in DOMAIN dynq.schema :
         /\ dynq.schema[name].optional
         /\ dynq.schema[name].nullable
         /\ dynq.schema[name].shape = SchemaOf(name)
    /\ dynq.success =
         (/\ dynq.input.t = "object"
          /\ \A name \in Populated :
               safeParse(SchemaOf(name), dynq.input.v[name]).success)

\* three distinct actions, two of them populated with valid arguments, accepted
C13_Witness ==
  /\ dynq.built
  /\ Len(dynq.names) = 3
  /\ Cardinality(DOMAIN dynq.schema) = 3
  /\ "click_element" \in DynNameSet
  /\ Cardinality(Populated) = 2
  /\ dynq.success

\* the collaborator operations that take a background flag
BackgroundOps == {"navigateTo", "getCurrentPage", "openTab", "switchTab"}

\* C21 (as claimed): every call of navigateTo, getCurrentPage, openTab or
\* switchTab made by a handler is made with background = true, on every path,
\* the switch to a newly opened tab inside click_element included.
C21_AlwaysBackground ==
  \A i \in DOMAIN Calls : Calls[i].op \in BackgroundOps => Calls[i].bg = "true"

\* C23 (as claimed): in every handler ACT_START is the first observable
\* effect: it is emitted before any call to the collaborator or to the
\* extraction model.
C23_StartIsFirstEffect ==
  (Active /\ last.invoked /\ last.trace # <<>>) =>
    /\ last.trace[1].k = "emit"
    /\ last.trace[1].op = "ACT_START"

\* C24 (as claimed): close_tab given a tab_id asks the collaborator to close
\* that id and no other, whatever its value (0 included), and when it returns
\* exactly that tab has left the tab set.
C24_CloseTabClosesGivenId ==
  (last.name = "close_tab" /\ last.invoked /\ Get(last.arg, "tab_id").t = "number") =>
    /\ ClosedIds \subseteq {Get(last.arg, "tab_id").v}
    /\ last.out.kind = "return" =>
         /\ ClosedIds = {Get(last.arg, "tab_id").v}
         /\ last.alone => tabs = last.pre.tabs \ {Get(last.arg, "tab_id").v}

\* the handlers whose purpose is to change the tab state
TabHandlers == {"switch_tab", "open_tab", "close_tab"}
\* the invocation under observation called none of the given operations
NoCallOf(ops) == \A i \in DOMAIN Calls : Calls[i].op \notin ops

\* C25 (as claimed): only switch_tab, open_tab and close_tab change the current
\* tab or the tab set; every other handler, click_element included, makes no
\* switchTab, openTab or closeTab call and, run with no other invocation in
\* between, leaves both as they were.
C25_OnlyTabHandlersChangeTabs ==
  (Active /\ last.name \notin TabHandlers) =>
    /\ NoCallOf({"switchTab", "openTab", "closeTab"})
    /\ last.alone =>
         /\ tabs = last.pre.tabs
         /\ cur = last.pre.cur

\* the tab listings the click of the invocation under observation asked for
TabListCalls == {i \in DOMAIN Calls : Calls[i].op = "getAllTabIds"}
\* both listings were answered
BothListed == Cardinality(TabListCalls) = 2 /\ \A i \in TabListCalls : last.hist[i].ok
\* the second listing holds more tabs than the first
Grew == Len(last.env.listing) > Cardinality(Snapshot(last))
\* the ids of the second listing that the first lacked, in listing order
NewlyListed == SelectSeq(last.env.listing, LAMBDA id : id \notin Snapshot(last))

\* C25 (amended): besides switch_tab, open_tab and close_tab, click_element
\* also changes the tab state: its click may add tabs, and it never calls
\* openTab or closeTab.  It calls switchTab exactly when both tab listings
\* were answered, the second holds more tabs than the first and the first
\* listed id the first listing lacked is not 0: then once, with that id,
\* which is the current tab when the call settles if the switch succeeded.
\* When the tab set did not grow, or that id is 0, it calls no switchTab, and
\* run with no other invocation in between it then leaves the current tab as
\* it was.  Every handler other than these four makes no switchTab, openTab
\* or closeTab call and leaves the tab set and the current tab unchanged.
\* (What an invocation leaves is compared with what it found when no other
\* invocation ran in between.)
C25_TabHandlersAndClickChangeTabs ==
  (Active /\ last.name \notin TabHandlers) =>
    IF last.name = "click_element"
      THEN /\ NoCallOf({"openTab", "closeTab"})
           /\ SwitchCalls # {} => BothListed
           /\ BothListed =>
                IF Grew /\ NewlyListed # <<>> /\ Head(NewlyListed) # 0
                  THEN /\ Cardinality(SwitchCalls) = 1
                       /\ \A i \in SwitchCalls : last.trace[i].arg = Head(NewlyListed)
                       /\ last.hist[Len(last.hist)].ok => cur = Head(NewlyListed)
                  ELSE SwitchCalls = {}
           /\ \A i \in SwitchCalls : last.trace[i].arg \notin Snapshot(last)
           /\ last.alone =>
                /\ last.pre.tabs \subseteq tabs
                /\ \A i \in SwitchCalls : last.trace[i].arg \in tabs \ last.pre.tabs
                /\ cur # last.pre.cur => (SwitchCalls # {} /\ cur \in tabs \ last.pre.tabs)
                /\ SwitchCalls = {} => cur = last.pre.cur
      ELSE /\ NoCallOf({"switchTab", "openTab", "closeTab"})
           /\ last.alone =>
                /\ tabs = last.pre.tabs
                /\ cur = last.pre.cur

\* a click that opened tab 2 and moved the current tab to it
C25_Witness ==
  /\ last.name = "click_element"
  /\ last.alone
  /\ SwitchCalls # {}
  /\ last.pre.cur = 1
  /\ cur = 2
  /\ 2 \notin last.pre.tabs

\* the phases the invocation under observation emitted, as a set
PhaseSet == {Phases[i] : i \in DOMAIN Phases}

\* C26: on every path of every handler that returns an ActionResult, ACT_FAIL
\* was emitted in the invocation exactly when the result has `error` set, and
\* if ACT_OK was emitted the result has `error` unset.
C26_TerminalAgreesWithResult ==
  (Active /\ last.invoked /\ last.out.kind = "return") =>
    /\ ("ACT_FAIL" \in PhaseSet) = (last.out.res.error # Unset)
    /\ "ACT_OK" \in PhaseSet => last.out.res.error = Unset

\* a selection that failed on a <select>: ACT_FAIL and a result with error set
C26_Witness ==
  /\ last.name = "select_dropdown_option"
  /\ last.env.fail = "selectDropdownOption"
  /\ Called("selectDropdownOption")
  /\ last.out.kind = "return"
  /\ "ACT_FAIL" \in PhaseSet
  /\ last.out.res.error # Unset

\* C27: over any sequence of invocations, a result returned by done has
\* isDone true and a result returned by any other action has isDone false.
C27_OnlyDoneCompletes ==
  (Active /\ last.invoked /\ last.out.kind = "return") =>
    (last.out.res.isDone = (last.name = "done"))

\* cache_content returning as second invocation of the run, not done
C27_Witness ==
  /\ last.name = "cache_content"
  /\ ncalls = 2
  /\ last.out.kind = "return"
  /\ last.out.res.isDone = FALSE

\* the tab ids the click of the invocation under observation opened
OwnTabs == {last.env.opened[i] : i \in DOMAIN last.env.opened}

\* C22: when no other invocation ran during a click_element (sequential
\* execution), the tab it switches to is one its own click opened, and it
\* becomes the current tab when the switch succeeds; when an open_tab ran
\* between the two snapshots, the tab switched to can be the one that other
\* invocation opened (the witness).
C22_SequentialSwitchIsOwnTab ==
  (last.name = "click_element" /\ last.alone) =>
    \A i \in SwitchCalls :
      /\ last.trace[i].arg \in OwnTabs
      /\ last.out.kind = "return" /\ last.out.res.error = Unset => cur = last.trace[i].arg

\* an open_tab ran between the snapshots and the click switched to its tab,
\* which the click did not open
C22_Witness ==
  /\ last.name = "click_element"
  /\ ~last.alone
  /\ \E i \in SwitchCalls : last.trace[i].arg \notin OwnTabs /\ cur = last.trace[i].arg
  /\ \A i \in SwitchCalls : last.trace[i].arg \notin Snapshot(last)
  /\ last.out.kind = "return"
=============================================================================
